---- MODULE Spec2Model ----
(***************************************************************************)
(* A model of the solidjs-tutorial demo components.                        *)
(*                                                                         *)
(* App.tsx mounts one demo at a time; the demos share nothing, so the      *)
(* model mounts one demo (Mount) and then lets its timers, buttons and     *)
(* promises act on it.  JavaScript runs every event handler to completion, *)
(* so one action is one whole handler, the reactive updates it triggers    *)
(* included.                                                               *)
(*                                                                         *)
(* The demos are written against solid-js.  The part of its reactive core  *)
(* they use (signals, tracked reads, memos, render effects, effects,       *)
(* batch) is modelled in the section "reactive core"; the demo components  *)
(* are translated from the sources on top of it.                           *)
(***************************************************************************)
EXTENDS Integers, Sequences, FiniteSets, TLC

VARIABLES
    demo,     \* the demo component App mounts
    phase,    \* "none" | "mounted" | "disposed"
    val,      \* node -> current value: signals, memos, (render) effects
    obs,      \* node -> the computations subscribed to it
    hist,     \* every execution of a computation body: <<[comp, out], ...>>
    log,      \* console.log output, in order
    events,   \* number of handler invocations (ticks, clicks, resolutions)
    timer,    \* the setInterval handle: "none" | "active" | "cleared"
    due,      \* TRUE when the interval has elapsed and its task is queued
    dom,      \* what render bound once and for all: handlers, static text, tree
    inflight, \* number of fetch calls awaiting their response
    redux,    \* the external store: [state, listeners]
    nextTodoId, \* data-flow.tsx: let nextTodoId = 0
    local,    \* the component's plain variables (let todoId, literals, object ids)
    trans     \* TransitionExample: the transition, the Suspense and the resources

vars == <<demo, phase, val, obs, hist, log, events, timer, due, dom, inflight,
          redux, nextTodoId, local, trans>>

(***************************************************************************)
(* Bounds                                                                  *)
(***************************************************************************)
MaxEvents == 4
MaxPhotos == 2
MaxTodos == 2

(***************************************************************************)
(* Nodes of the reactive graph.  A node is <<name, index>>.                *)
(***************************************************************************)
N(name) == <<name, 0>>

\* Memos renders fib() five times in each of ten rows.
NumFibReads == 50

FibTexts == {<<"fibText", i>> : i \in 1..NumFibReads}

\* const fibonacci = (num) => num <= 1 ? 1 : fibonacci(num - 1) + fibonacci(num - 2)
RECURSIVE fibonacci(_)
fibonacci(num) ==
    IF num <= 1 THEN 1 ELSE fibonacci(num - 1) + fibonacci(num - 2)

(***************************************************************************)
(* The demos: their signals (createSignal calls, with initial values) and  *)
(* their computations in creation order.                                   *)
(***************************************************************************)
SeqOfFibTexts == [i \in 1..NumFibReads |-> <<"fibText", i>>]

\* SwitchMatchExample: const [x] = createSignal(11)
XInSource == 11

\* the literals tried in place of 11 are 0 .. MaxX
MaxX == 12

XValues == 0..MaxX

SignalsOf(d) ==
    CASE d = "SignalTutorial"  -> (N("count") :> 0)
      [] d = "DerivedSignals"  -> (N("count") :> 0)
      [] d = "EffectsTutorial" -> (N("count") :> 0)
      [] d = "Memos"           -> (N("count") :> 10)
      [] d = "CleanCounter"    -> (N("count") :> 0)
      [] d = "BadUpdateNameExample"  -> (N("firstName") :> "John") @@ (N("lastName") :> "Smith")
      [] d = "GoodUpdateNameExample" -> (N("firstName") :> "John") @@ (N("lastName") :> "Smith")
      [] d = "BadLoginButton"  -> (N("loggedIn") :> FALSE)
      [] d = "OnMountExample"  -> (N("photos") :> [ref |-> 0, items |-> <<>>])
      [] d = "ReduxTodo"       -> (N("state") :> redux.state)
      [] d = "ErrorExample"    -> [s \in {} |-> 0]
      [] d = "SwitchMatchExample" -> (N("x") :> XInSource)
      [] d = "TransitionExample" -> (N("tab") :> 0)
      [] d = "AdvancedPathStoreUpdatesExample" ->
             (N("taskList") :>
                [todos |-> << [task |-> "Finish work", completed |-> FALSE],
                              [task |-> "Go grocery shopping", completed |-> FALSE],
                              [task |-> "Make dinner", completed |-> FALSE] >>])
      [] d = "BasicStoreUpdatesExample" ->
             (N("state") :> [firstName |-> "Phillip", lastName |-> "Sipe"])
      [] d = "BasicPathStoreUpdatesExample" ->
             (N("animalList") :>
                [counter |-> 2,
                 list |-> << [id |-> 23, title |-> "Birds"],
                             [id |-> 27, title |-> "Fish"] >>])
      [] d \in {"BadTodoList", "GoodTodoList", "StoreTodo"} -> (N("todos") :> <<>>)
      [] d = "GoodLoginButton" -> (N("loggedIn") :> FALSE) @@ (N("buttonText") :> "Log In")
      [] d = "UntrackExample"  -> (N("a") :> 1) @@ (N("b") :> 1)
      [] d = "OnExample"       -> (N("a") :> 1) @@ (N("b") :> 1)

CompsOf(d) ==
    CASE d = "SignalTutorial"  -> <<N("countText")>>
      [] d = "DerivedSignals"  -> <<N("doubleText")>>
      [] d = "EffectsTutorial" -> <<N("logCount")>>
      [] d = "Memos"           -> <<N("fib"), N("memoCountText")>> \o SeqOfFibTexts
      [] d = "CleanCounter"    -> <<N("countText")>>
      [] d = "BadUpdateNameExample"  -> <<N("fullName")>>
      [] d = "GoodUpdateNameExample" -> <<N("fullName")>>
      [] d = "BadLoginButton"  -> <<>>
      [] d = "OnMountExample"  -> <<N("onMount"), N("photoList")>>
      [] d = "ReduxTodo"       -> <<N("todoList")>>
      [] d = "ErrorExample"    -> <<>>
      [] d = "SwitchMatchExample" -> <<N("switch")>>
      [] d = "TransitionExample" -> <<N("selected")>>
      [] d = "AdvancedPathStoreUpdatesExample" -> <<N("jsonTaskList")>>
      [] d = "BasicStoreUpdatesExample" -> <<N("jsonState")>>
      [] d = "BasicPathStoreUpdatesExample" -> <<N("jsonAnimalList")>>
      [] d \in {"BadTodoList", "GoodTodoList", "StoreTodo"} -> <<N("todoRows")>>
      [] d = "GoodLoginButton" -> <<N("buttonLabel")>>
      [] d = "UntrackExample"  -> <<N("printAB")>>
      [] d = "OnExample"       -> <<N("onA")>>

\* createMemo -> "memo"; a JSX expression {f()} -> "render"; createEffect -> "effect"
Kind(c) ==
    CASE c[1] \in {"fib"}      -> "memo"
      [] c[1] \in {"logCount", "onMount", "printAB", "onA"} -> "effect"
      [] OTHER                 -> "render"

(***************************************************************************)
(* The bodies of the computations: what a run returns, the nodes it reads  *)
(* while tracking, and what it prints.                                     *)
(***************************************************************************)
Ret(out, reads, printed) == [out |-> out, reads |-> reads, log |-> printed]

\* SignalTutorial / CleanCounter: <div>Count: {count()}</div>
CountTextBody(v) == Ret(v[N("count")], {N("count")}, <<>>)

\* DerivedSignals: const doubleCount = () => count() * 2
doubleCount(v) == v[N("count")] * 2

\* as if written  const doubleCount = count() * 2  (evaluated once, at setup)
DoubleTextBodyConst(v) == Ret(0, {}, <<>>)

\* DerivedSignals: <div>Count: {doubleCount()}</div>
DoubleTextBody(v) == Ret(doubleCount(v), {N("count")}, <<>>)

\* as if the effect read count through untrack: it prints but never subscribes
LogCountBodyUntracked(v) ==
    Ret(0, {}, << <<"The count is now", v[N("count")]>> >>)

\* EffectsTutorial: createEffect(() => console.log("The count is now", count()))
LogCountBody(v) ==
    Ret(0, {N("count")}, << <<"The count is now", v[N("count")]>> >>)

\* Memos: createMemo(() => { console.log('Calculating Fibonacci'); return fibonacci(count()) })
FibBody(v) ==
    Ret(fibonacci(v[N("count")]), {N("count")}, << <<"Calculating Fibonacci">> >>)

\* as if fib were a derived signal (a plain function): every read computes
FibTextBodyDerived(v) ==
    Ret(fibonacci(v[N("count")]), {N("count")}, << <<"Calculating Fibonacci">> >>)

\* Memos: {fib()} in the rows: a read of the memo
FibTextBody(v) == Ret(v[N("fib")], {N("fib")}, <<>>)

\* Bad/GoodUpdateNameExample: My name is {fullName()}
\*   const fullName = () => { console.log("Running FullName"); return `${firstName()} ${lastName()}` }
FullNameBody(v) ==
    Ret(v[N("firstName")] \o " " \o v[N("lastName")],
        {N("firstName"), N("lastName")}, << <<"Running FullName">> >>)

\* as if the callback were given to createEffect and read photos() while tracked
OnMountBodyTracked(v) == Ret(0, {N("photos")}, <<>>)

\* OnMountExample: onMount(async () => { fetch ... }): an effect that tracks
\* nothing; each run starts one fetch (see Started)
OnMountBody(v) == Ret(0, {}, <<>>)

\* OnMountExample: <For each={photos()} fallback={<p>Loading...</p>}>
PhotoListBody(v) ==
    Ret(IF v[N("photos")].items = <<>> THEN <<"Loading...">>
        ELSE [i \in 1..Len(v[N("photos")].items) |-> v[N("photos")].items[i]],
        {N("photos")}, <<>>)

\* ReduxTodo: <For each={store.todos}>
TodoListBody(v) == Ret(v[N("state")].todos, {N("state")}, <<>>)

\* <Match when={w}>text</Match>
Match(w, text) == [when |-> w, text |-> text]

\* <Switch fallback={fb}>matches</Switch>: the children that are rendered: the
\* first Match whose when is truthy, or the fallback when there is none
Switch(fb, matches) ==
    LET hits == {i \in 1..Len(matches) : matches[i].when}
    IN  IF hits = {} THEN <<fb>>
        ELSE <<matches[CHOOSE i \in hits : \A j \in hits : i <= j].text>>

\* the Switch with its first two Match children in the other order
SwitchBodyBobFirst(v) ==
    LET x == v[N("x")]
    IN  Ret(Switch("is between 5 and 10",
                   << Match(x > 10, "greater than Bob"),
                      Match(x > 10, "greater than 10"),
                      Match(x < 5, "less than 5") >>),
            {N("x")}, <<>>)

\* SwitchMatchExample: the Switch element
SwitchBody(v) ==
    LET x == v[N("x")]
    IN  Ret(Switch("is between 5 and 10",
                   << Match(x > 10, "greater than 10"),
                      Match(x > 10, "greater than Bob"),
                      Match(x < 5, "less than 5") >>),
            {N("x")}, <<>>)

\* GoodLoginButton: <button onClick={handleClick}>{buttonText()}</button>
ButtonLabelBody(v) == Ret(v[N("buttonText")], {N("buttonText")}, <<>>)

\* as if b were read like a: b() instead of untrack(b)
PrintABBodyTracked(v) ==
    Ret(0, {N("a"), N("b")}, << <<v[N("a")], v[N("b")]>> >>)

\* UntrackExample: createEffect(() => { console.log(a(), untrack(b)) })
PrintABBody(v) == Ret(0, {N("a")}, << <<v[N("a")], v[N("b")]>> >>)

\* as if { defer: true } were missing
OnABodyEager(v) ==
    Ret(0, {N("a")}, << <<"On example: ", v[N("a")], v[N("b")]>> >>)

\* OnExample: createEffect(on(a, (a) => { console.log('On example: ', a, b()) },
\* { defer: true })): on reads a while tracking, skips the callback on the
\* first run and calls it untracked on the later ones
OnABody(v) ==
    IF N("onA") \in DOMAIN v
      THEN Ret(0, {N("a")}, << <<"On example: ", v[N("a")], v[N("b")]>> >>)
      ELSE Ret(0, {N("a")}, <<>>)

\* <For each={todos()}>{(todo) => { console.log(`Creating ${text}`) ... }}</For>
\* For keeps the rows of the items it has already seen, by object identity, and
\* calls the row callback for the items that are new in the list
ForTodosBody(v) ==
    LET todos == v[N("todos")]
        rows  == IF N("todoRows") \in DOMAIN v THEN v[N("todoRows")] ELSE <<>>
        seen  == {rows[i].ref : i \in 1..Len(rows)}
        fresh == SelectSeq(todos, LAMBDA t : t.ref \notin seen)
    IN  Ret([i \in 1..Len(todos) |-> [ref |-> todos[i].ref, text |-> todos[i].text]],
            {N("todos")},
            [i \in 1..Len(fresh) |-> "Creating " \o fresh[i].text])

\* <pre>{JSON.stringify(state, null, 2)}</pre>: reads every key of the store
JsonStateBody(v) == Ret(v[N("state")], {N("state")}, <<>>)

\* <pre>{JSON.stringify(animalList, null, 2)}</pre>
JsonAnimalListBody(v) == Ret(v[N("animalList")], {N("animalList")}, <<>>)

\* <pre>{JSON.stringify(taskList, null, 2)}</pre>
JsonTaskListBody(v) == Ret(v[N("taskList")], {N("taskList")}, <<>>)

\* TransitionExample: classList={{ selected: tab() === i }} of the three <li>
SelectedBody(v) == Ret([i \in 0..2 |-> v[N("tab")] = i], {N("tab")}, <<>>)

Body(c, v) ==
    CASE c[1] = "countText"     -> CountTextBody(v)
      [] c[1] = "memoCountText" -> CountTextBody(v)
      [] c[1] = "doubleText"    -> DoubleTextBody(v)
      [] c[1] = "logCount"      -> LogCountBody(v)
      [] c[1] = "fib"           -> FibBody(v)
      [] c[1] = "fibText"       -> FibTextBody(v)
      [] c[1] = "fullName"      -> FullNameBody(v)
      [] c[1] = "onMount"       -> OnMountBody(v)
      [] c[1] = "photoList"     -> PhotoListBody(v)
      [] c[1] = "todoList"      -> TodoListBody(v)
      [] c[1] = "buttonLabel"   -> ButtonLabelBody(v)
      [] c[1] = "switch"        -> SwitchBody(v)
      [] c[1] = "selected"      -> SelectedBody(v)
      [] c[1] = "jsonTaskList"  -> JsonTaskListBody(v)
      [] c[1] = "jsonState"     -> JsonStateBody(v)
      [] c[1] = "jsonAnimalList" -> JsonAnimalListBody(v)
      [] c[1] = "todoRows"      -> ForTodosBody(v)
      [] c[1] = "printAB"       -> PrintABBody(v)
      [] c[1] = "onA"           -> OnABody(v)

(***************************************************************************)
(* Reactive core.  rt is the runtime record                                *)
(*   [val, obs, hist, log, stale, order]                                   *)
(* stale holds the computations marked for re-execution; order is the      *)
(* creation order of the computations.                                     *)
(***************************************************************************)
Put(f, k, x) == [y \in DOMAIN f \cup {k} |-> IF y = k THEN x ELSE f[y]]

ObsOf(o, s) == IF s \in DOMAIN o THEN o[s] ELSE {}

\* the first computation of S in creation order
FirstOf(order, S) ==
    order[CHOOSE i \in 1..Len(order) :
            /\ order[i] \in S
            /\ \A j \in 1..(i - 1) : order[j] \notin S]

\* One execution of computation c: unsubscribe it, run its body with
\* tracking, store the result; a memo whose value changed marks its observers.
RunComp(rt, c) ==
    LET r       == Body(c, rt.val)
        changed == c \notin DOMAIN rt.val \/ rt.val[c] # r.out
        marked  == IF Kind(c) = "memo" /\ changed THEN ObsOf(rt.obs, c) ELSE {}
        nodes   == DOMAIN rt.obs \cup r.reads
    IN  [rt EXCEPT
           !.val   = Put(rt.val, c, r.out),
           !.obs   = [s \in nodes |->
                        (ObsOf(rt.obs, s) \ {c}) \cup (IF s \in r.reads THEN {c} ELSE {})],
           !.hist  = Append(rt.hist, [comp |-> c, out |-> r.out]),
           !.log   = rt.log \o r.log,
           !.stale = (rt.stale \ {c}) \cup marked]

\* completeUpdates: memos first, then render effects, then user effects
RECURSIVE Flush(_)
Flush(rt) ==
    LET OfKind(k) == {c \in rt.stale : Kind(c) = k}
    IN  IF OfKind("memo") # {}
          THEN Flush(RunComp(rt, FirstOf(rt.order, OfKind("memo"))))
        ELSE IF OfKind("render") # {}
          THEN Flush(RunComp(rt, FirstOf(rt.order, OfKind("render"))))
        ELSE IF OfKind("effect") # {}
          THEN Flush(RunComp(rt, FirstOf(rt.order, OfKind("effect"))))
        ELSE rt

\* the setter without the flush: nothing happens when the value is unchanged
WriteSignal(rt, s, x) ==
    IF rt.val[s] = x THEN rt
    ELSE [rt EXCEPT !.val[s] = x, !.stale = rt.stale \cup ObsOf(rt.obs, s)]

\* a setter called outside batch: write, then run everything that depends on it
SetSignal(rt, s, x) == Flush(WriteSignal(rt, s, x))

\* batch(fn) for an fn made of two setter calls: both writes, then one flush
Batch2(rt, s1, x1, s2, x2) ==
    Flush(WriteSignal(WriteSignal(rt, s1, x1), s2, x2))

\* the store setter given an object: a shallow merge of its keys into the state
SetStore(rt, s, obj) ==
    SetSignal(rt, s, [k \in DOMAIN rt.val[s] \cup DOMAIN obj |->
                        IF k \in DOMAIN obj THEN obj[k] ELSE rt.val[s][k]])

\* setStore(reconcile(target)): the keys of target are set and the keys the
\* state has but target has not are deleted
Reconciled(prev, target) ==
    [k \in DOMAIN target |-> target[k]]

\* setStore(key, x): the value under key is replaced (an array is not merged)
SetPath(rt, s, key, x) == SetSignal(rt, s, [rt.val[s] EXCEPT ![key] = x])

\* the loop of a range part whose upper end is left out:
\* for (i = from; i < to; i += by)
RECURSIVE LoopBelow(_, _, _)
LoopBelow(from, to, by) ==
    IF from < to THEN <<from>> \o LoopBelow(from + by, to, by) ELSE <<>>

\* the loop of a range part: for (i = from; i <= to; i += by)
RECURSIVE Loop(_, _, _)
Loop(from, to, by) ==
    IF from <= to THEN <<from>> \o Loop(from + by, to, by) ELSE <<>>

\* a key of a range object, or its default
Opt(part, key, default) == IF key \in DOMAIN part THEN part[key] ELSE default

\* the range object with no key: {}
EmptyObject == [k \in {} |-> 0]

\* a path part that is an object: { from = 0, to = length - 1, by = 1 }
RangeBelow(part, len) ==
    LoopBelow(Opt(part, "from", 0), Opt(part, "to", len - 1), Opt(part, "by", 1))

Range(part, len) ==
    Loop(Opt(part, "from", 0), Opt(part, "to", len - 1), Opt(part, "by", 1))

\* the task texts of AdvancedPathStoreUpdatesExample, for endsWith
TaskTexts == {"Finish work", "Go grocery shopping", "Make dinner"}

\* task.endsWith('!'), for the texts this component can hold
EndsWithBang(task) == \E t \in TaskTexts : task = t \o "!"

\* the filter functions of AdvancedPathStoreUpdatesExample, by their source text
Passes(filter, todo) ==
    CASE filter = "!todo.completed" -> ~todo.completed
      [] filter = "!todo.task.endsWith('!')" -> ~EndsWithBang(todo.task)

\* the last path argument: a value, or a function of the current value
\* (c => !c, t => t + '!')
Updated(updater, current) ==
    CASE updater.fn = "value" -> updater.value
      [] updater.fn = "not"   -> ~current
      [] updater.fn = "plus"  -> current \o updater.value

\* a path part that is a filter function: the indices whose element passes
RECURSIVE Where(_, _, _)
Where(list, filter, i) ==
    IF i >= Len(list) THEN <<>>
    ELSE (IF Passes(filter, list[i + 1]) THEN <<i>> ELSE <<>>)
           \o Where(list, filter, i + 1)

\* the rest of the path, a key and an updater, applied at each selected index
\* (indices count from 0; an index selected n times is updated n times)
RECURSIVE UpdateEach(_, _, _, _)
UpdateEach(list, indices, key, updater) ==
    IF indices = <<>> THEN list
    ELSE LET i    == Head(indices) + 1
             item == list[i]
             now  == IF key \in DOMAIN item THEN item[key] ELSE "undefined"
         IN  UpdateEach([list EXCEPT ![i] = Put(item, key, Updated(updater, now))],
                        Tail(indices), key, updater)

\* render(): the component function runs once.  Memos and render effects
\* run as they are created, effects are queued until rendering is done.
RECURSIVE Create(_, _)
Create(rt, i) ==
    IF i > Len(rt.order) THEN Flush(rt)
    ELSE LET c == rt.order[i]
         IN  IF Kind(c) = "effect"
               THEN Create([rt EXCEPT !.stale = rt.stale \cup {c}], i + 1)
               ELSE Create(RunComp(rt, c), i + 1)

RenderWith(d, sigs) ==
    Create([val |-> sigs, obs |-> [s \in {} |-> {}], hist |-> <<>>,
            log |-> <<>>, stale |-> {}, order |-> CompsOf(d)], 1)

Render(d) == RenderWith(d, SignalsOf(d))

\* the runtime record of the current state
Rt == [val |-> val, obs |-> obs, hist |-> hist, log |-> log, stale |-> {},
       order |-> CompsOf(demo)]

Commit(rt) ==
    /\ val' = rt.val
    /\ obs' = rt.obs
    /\ hist' = rt.hist
    /\ log' = rt.log

(***************************************************************************)
(* ErrorExample: the JSX tree.  Rendering a piece of JSX either yields     *)
(* elements or throws.                                                     *)
(***************************************************************************)
Ok(nodes) == [threw |-> FALSE, err |-> "", nodes |-> nodes]
Throw(msg) == [threw |-> TRUE, err |-> msg, nodes |-> <<>>]
Elem(tag, text) == [tag |-> tag, text |-> text]

RECURSIVE Fragment(_)
\* <>a b c</>: the children are evaluated in order; the first throw propagates
Fragment(parts) ==
    IF parts = <<>> THEN Ok(<<>>)
    ELSE IF Head(parts).threw THEN Head(parts)
    ELSE LET rest == Fragment(Tail(parts))
         IN  IF rest.threw THEN rest ELSE Ok(Head(parts).nodes \o rest.nodes)

\* <ErrorBoundary fallback={err => err}>{children}</ErrorBoundary>: an error
\* thrown while rendering the children is caught and the fallback's result is
\* rendered in their place
ErrorBoundary(children) ==
    IF children.threw THEN Ok(<<Elem("#error", children.err)>>) ELSE children

\* const Broken = () => { throw new Error("Oh No"); return <>Never Getting Here</> }
Broken == Throw("Oh No")

\* as if <Broken /> stood outside the boundary
ErrorExampleUnguarded ==
    Fragment(<<Ok(<<Elem("div", "Before")>>), Broken, Ok(<<Elem("div", "After")>>)>>)

\* function ErrorExample()
ErrorExample ==
    Fragment(<<Ok(<<Elem("div", "Before")>>),
               ErrorBoundary(Broken),
               Ok(<<Elem("div", "After")>>)>>)

(***************************************************************************)
(* What render binds once: event handlers and text that is no signal read  *)
(***************************************************************************)
\* BadLoginButton:
\*   const buttonText = loggedIn() ? 'Log Out' : 'Log In';
\*   <button onClick={loggedIn() ? logout : login}>{buttonText}</button>
BadLoginBindings(v) ==
    [onClick |-> IF v[N("loggedIn")] THEN "logout" ELSE "login",
     text    |-> IF v[N("loggedIn")] THEN "Log Out" ELSE "Log In"]

DomOf(d) ==
    CASE d = "BadLoginButton" -> BadLoginBindings(SignalsOf(d))
      [] d = "ErrorExample"   -> [tree |-> ErrorExample]
      [] OTHER                -> [none |-> 0]

(***************************************************************************)
(* Timers and disposal                                                     *)
(***************************************************************************)
\* the demos whose component function calls setInterval
IntervalDemos == {"SignalTutorial", "DerivedSignals", "CleanCounter"}

\* CleanCounter without its onCleanup line (as SignalTutorial is written)
NoCleanups == {}

\* CleanCounter: onCleanup(() => clearInterval(timer))
CleanCounterCleanups == {"clearInterval"}

\* useRedux without its onCleanup line
NoUnsubscribe == {}

\* useRedux: onCleanup(() => unsubscribe())
UseReduxCleanups == {"unsubscribe"}

\* the onCleanup callbacks a demo registers in its owner
CleanupsOf(d) ==
    CASE d = "CleanCounter" -> CleanCounterCleanups
      [] d = "ReduxTodo"    -> UseReduxCleanups
      [] OTHER              -> {}

(***************************************************************************)
(* The external store of ReduxTodo: getState / subscribe / dispatch        *)
(***************************************************************************)
TodoTexts == {"a", "b"}

\* actions.addTodo / actions.toggleTodo
addTodo(text) == [type |-> "ADD_TODO", id |-> nextTodoId + 1, text |-> text]
toggleTodo(id) == [type |-> "TOGGLE_TODO", id |-> id]

\* the store's reducer: a new state, the old one is never changed in place
Reducer(st, action) ==
    CASE action.type = "ADD_TODO" ->
           [todos |-> Append(st.todos,
               [id |-> action.id, text |-> action.text, completed |-> FALSE])]
      [] action.type = "TOGGLE_TODO" ->
           [todos |-> [i \in 1..Len(st.todos) |->
               IF st.todos[i].id = action.id
                 THEN [st.todos[i] EXCEPT !.completed = ~@]
                 ELSE st.todos[i]]]

\* useRedux: the listener  () => setState(store.getState())
Listener(rt, st) == SetStore(rt, N("state"), st)

(***************************************************************************)
(* Actions                                                                 *)
(***************************************************************************)
Demos == {"SignalTutorial", "DerivedSignals", "EffectsTutorial", "Memos",
          "CleanCounter", "BadUpdateNameExample", "GoodUpdateNameExample",
          "BadLoginButton", "OnMountExample", "ReduxTodo", "ErrorExample",
          "GoodLoginButton", "UntrackExample", "OnExample",
          "SwitchMatchExample", "BadTodoList", "GoodTodoList", "StoreTodo",
          "BasicStoreUpdatesExample", "BasicPathStoreUpdatesExample",
          "AdvancedPathStoreUpdatesExample", "TransitionExample"}

TodoDemos == {"BadTodoList", "GoodTodoList", "StoreTodo"}

\* no transition: the value of trans in the other demos
NoTransition == [none |-> 0]

(***************************************************************************)
(* TransitionExample.  t is the record of what useTransition, Suspense and *)
(* the Child resources hold:                                               *)
(*   tTab, tChild   tab and Child as the transition sees them              *)
(*   child          the Child under the Switch on screen                   *)
(*   promises       the resources the running transition waits for         *)
(*   pending        the pending() signal                                   *)
(*   counter        the resources the Suspense boundary waits for          *)
(*   resolved       the Suspense boundary has shown its children once      *)
(*   loading        the resources whose delay has not resolved             *)
(*   made           the number of resources created                        *)
(***************************************************************************)
\* <Match when={tab() === i}><Child page=... /></Match>
Pages == <<"Uno", "Dos", "Tres">>

BeforeRender ==
    [tTab |-> 0, tChild |-> [id |-> 0, page |-> "none"],
     child |-> [id |-> 0, page |-> "none"], promises |-> {}, pending |-> FALSE,
     counter |-> 0, resolved |-> FALSE, loading |-> {}, made |-> 0]

\* Child: createResource(createDelay) starts a delay and the JSX reads time().
\* Read below a Suspense boundary that has resolved, in a running transition,
\* the resource joins the transition's promises; otherwise the boundary
\* counts it and shows its fallback.
Child(t, page, inTransition) ==
    LET id    == t.made + 1
        under == inTransition /\ t.resolved
    IN  [t EXCEPT !.made = id,
                  !.tChild = [id |-> id, page |-> page],
                  !.loading = @ \cup {[id |-> id, under |-> under]},
                  !.promises = IF under THEN @ \cup {id} ELSE @,
                  !.counter = IF under THEN @ ELSE @ + 1]

\* the end of a batch of updates: a transition with nothing to wait for is
\* committed (tab and the Switch take the transition's values, pending() is
\* false), one that waits stays off screen and pending() is true
CompleteUpdates(rt, t) ==
    IF t.promises = {}
      THEN [rt |-> SetSignal(rt, N("tab"), t.tTab),
            t  |-> [t EXCEPT !.child = t.tChild, !.pending = FALSE]]
      ELSE [rt |-> rt, t |-> [t EXCEPT !.pending = TRUE]]

\* setTab(index) as seen by the Switch: nothing when the value is the same,
\* else the Match of the new tab creates its Child
setTab(t, index, inTransition) ==
    IF index = t.tTab THEN t
    ELSE Child([t EXCEPT !.tTab = index], Pages[index + 1], inTransition)

\* onClick={() => setTab(index)}: the update is not wrapped in start
updateTabWithoutStart(rt, t, index) ==
    LET t1 == setTab(t, index, FALSE)
    IN  [rt |-> SetSignal(rt, N("tab"), index), t |-> [t1 EXCEPT !.child = t1.tChild]]

\* updateTab(index)(): start(() => setTab(index))
updateTab(rt, t, index) == CompleteUpdates(rt, setTab(t, index, TRUE))

\* the delay of resource r resolves
loadEnd(rt, t, r) ==
    IF r.under
      THEN CompleteUpdates(rt, [t EXCEPT !.loading = @ \ {r},
                                        !.promises = @ \ {r.id}])
      ELSE [rt |-> rt,
            t  |-> [t EXCEPT !.loading = @ \ {r},
                             !.counter = @ - 1,
                             !.resolved = @ \/ t.counter = 1]]

\* what the Suspense boundary shows
Shown(t) == IF t.counter > 0 THEN "Loading..." ELSE t.child.page

\* the first render: Match tab() === 0 creates Child Uno outside any transition
FirstRender ==
    LET t == Child(BeforeRender, Pages[1], FALSE)
    IN  [t EXCEPT !.child = t.tChild]

TransOf(d) == IF d = "TransitionExample" THEN FirstRender ELSE NoTransition

\* the plain variables a component function declares
LocalsOf(d) ==
    CASE d = "SwitchMatchExample" -> {[x |-> k] : k \in XValues}
      [] d \in {"BadTodoList", "GoodTodoList", "StoreTodo"}
                                  -> {[todoId |-> 0, objects |-> 0]}
      [] OTHER                    -> {[none |-> 0]}

\* the signals as the component function creates them
Signals(d, l) ==
    IF d = "SwitchMatchExample" THEN (N("x") :> l.x) ELSE SignalsOf(d)

\* App.tsx returns one of the demos; which one is fixed before the program runs
Init ==
    /\ demo \in Demos
    /\ phase = "none"
    /\ val = [s \in {} |-> 0]
    /\ obs = [s \in {} |-> {}]
    /\ hist = <<>>
    /\ log = <<>>
    /\ events = 0
    /\ timer = "none"
    /\ due = FALSE
    /\ dom = [none |-> 0]
    /\ inflight = 0
    /\ redux = [state |-> [todos |-> <<>>], listeners |-> {}]
    /\ nextTodoId = 0
    /\ local \in LocalsOf(demo)
    /\ trans = NoTransition

\* number of executions of computation c
Runs(h, c) == Len(SelectSeq(h, LAMBDA e : e.comp = c))

\* the fetch calls a step starts: one per run of the onMount callback
Started(rt) == Runs(rt.hist, N("onMount")) - Runs(hist, N("onMount"))

\* render(() => <App />): the mounted demo's component function runs, once
Mount ==
    /\ phase = "none"
    /\ phase' = "mounted"
    /\ Commit(RenderWith(demo, Signals(demo, local)))
    /\ timer' = IF demo \in IntervalDemos THEN "active" ELSE "none"
    /\ dom' = DomOf(demo)
    /\ inflight' = Runs(Render(demo).hist, N("onMount"))
    /\ redux' = IF demo = "ReduxTodo"
                  THEN [redux EXCEPT !.listeners = @ \cup {"useRedux"}]
                  ELSE redux
    /\ trans' = TransOf(demo)
    /\ UNCHANGED <<demo, events, due, nextTodoId, local>>

\* the root is disposed: every computation is unsubscribed and the owner's
\* onCleanup callbacks run
Unmount ==
    /\ phase = "mounted"
    /\ phase' = "disposed"
    /\ obs' = [s \in DOMAIN obs |-> {}]
    /\ timer' = IF "clearInterval" \in CleanupsOf(demo) THEN "cleared" ELSE timer
    /\ redux' = IF "unsubscribe" \in CleanupsOf(demo)
                  THEN [redux EXCEPT !.listeners = @ \ {"useRedux"}]
                  ELSE redux
    /\ UNCHANGED <<demo, val, hist, log, events, due, dom, inflight, nextTodoId, local, trans>>

\* the interval elapses: the platform queues the timer's task
TimerFire ==
    /\ timer = "active" /\ ~due /\ events < MaxEvents
    /\ due' = TRUE
    /\ UNCHANGED <<demo, phase, val, obs, hist, log, events, timer, dom,
                   inflight, redux, nextTodoId, local, trans>>

\* as if the callback closed over the value count had at setup
IncrementStale ==
    Commit(SetSignal(Rt, N("count"), SignalsOf(demo)[N("count")] + 1))

\* setCount(count() + 1)
Increment == Commit(SetSignal(Rt, N("count"), val[N("count")] + 1))

\* the queued timer task runs: the callback is called unless the handle was
\* cleared in the meantime.  setInterval(() => setCount(count() + 1), 1000)
Tick ==
    /\ due
    /\ due' = FALSE
    /\ IF timer = "active"
         THEN Increment /\ events' = events + 1
         ELSE UNCHANGED <<val, obs, hist, log, events>>
    /\ UNCHANGED <<demo, phase, timer, dom, inflight, redux, nextTodoId, local, trans>>

\* a button of the mounted demo d is clicked and its handler returns rt
Click(d, rt) ==
    /\ demo = d /\ phase = "mounted" /\ events < MaxEvents
    /\ Commit(rt)
    /\ events' = events + 1
    /\ UNCHANGED <<demo, phase, timer, due, dom, inflight, redux, nextTodoId, local, trans>>

\* EffectsTutorial: <button onClick={() => setCount(count() + 1)}>
EffectsClick ==
    /\ demo = "EffectsTutorial" /\ phase = "mounted" /\ events < MaxEvents
    /\ Increment
    /\ events' = events + 1
    /\ UNCHANGED <<demo, phase, timer, due, dom, inflight, redux, nextTodoId, local, trans>>

\* Memos: <button onClick={() => setCount(count() + 1)}>
MemosClick ==
    /\ demo = "Memos" /\ phase = "mounted" /\ events < MaxEvents
    /\ Increment
    /\ events' = events + 1
    /\ UNCHANGED <<demo, phase, timer, due, dom, inflight, redux, nextTodoId, local, trans>>

Printed(rt, line) == [rt EXCEPT !.log = Append(rt.log, line)]

\* BadUpdateNameExample.updateNames
updateNamesBad(rt) ==
    LET r0 == Printed(rt, <<"Button Clicked">>)
        r1 == SetSignal(r0, N("firstName"), r0.val[N("firstName")] \o "n")
    IN  SetSignal(r1, N("lastName"), r1.val[N("lastName")] \o "!")

\* as if the two setter calls were not wrapped in batch
updateNamesUnbatched(rt) == updateNamesBad(rt)

\* GoodUpdateNameExample.updateNames
updateNamesGood(rt) ==
    LET r0 == Printed(rt, <<"Button Clicked">>)
    IN  Batch2(r0, N("firstName"), r0.val[N("firstName")] \o "n",
                   N("lastName"), r0.val[N("lastName")] \o "!")

BadUpdateNameClick == Click("BadUpdateNameExample", updateNamesBad(Rt))

GoodUpdateNameClick == Click("GoodUpdateNameExample", updateNamesGood(Rt))

\* BadLoginButton.login / logout
login(rt) ==
    SetSignal(Printed(rt, <<"Bad Login Button - Logged in: ", rt.val[N("loggedIn")]>>),
              N("loggedIn"), TRUE)

logout(rt) ==
    SetSignal(Printed(rt, <<"Bad Logout Button - Logged in: ", rt.val[N("loggedIn")]>>),
              N("loggedIn"), FALSE)

\* as if the component re-executed on every change and rebound its handler
ReboundHandler == IF val[N("loggedIn")] THEN "logout" ELSE "login"

\* the handler the button carries: the one bound when the component ran
BoundHandler == dom.onClick

BadLoginClick ==
    Click("BadLoginButton",
          IF BoundHandler = "login" THEN login(Rt) ELSE logout(Rt))

\* GoodLoginButton.login / logout
goodLogin(rt) == SetSignal(rt, N("loggedIn"), TRUE)

goodLogout(rt) == SetSignal(rt, N("loggedIn"), FALSE)

\* as if the label were computed before the toggle
handleClickStale(rt) ==
    LET text == IF rt.val[N("loggedIn")] THEN "Log Out" ELSE "Log In"
        r1   == IF rt.val[N("loggedIn")] THEN goodLogout(rt) ELSE goodLogin(rt)
    IN  SetSignal(r1, N("buttonText"), text)

\* GoodLoginButton.handleClick
handleClick(rt) ==
    LET r1 == IF rt.val[N("loggedIn")] THEN goodLogout(rt) ELSE goodLogin(rt)
    IN  SetSignal(r1, N("buttonText"),
                  IF r1.val[N("loggedIn")] THEN "Log Out" ELSE "Log In")

GoodLoginClick == Click("GoodLoginButton", handleClick(Rt))

\* what the user has typed into <input ref={input} />
InputValues == TodoTexts \cup {""}

\* the node of the completed value that belongs to one todo object
CompletedOf(ref) == <<"completed", ref>>

\* BadTodoList.addTodo: l holds todoId and the number of objects made so far
badAddTodo(rt, l, text) ==
    LET item == [id |-> l.todoId + 1, text |-> text, completed |-> FALSE,
                 ref |-> l.objects + 1]
    IN  [rt |-> SetSignal(rt, N("todos"), Append(rt.val[N("todos")], item)),
         l  |-> [todoId |-> l.todoId + 1, objects |-> l.objects + 1]]

\* BadTodoList.toggleTodo: map() keeps the other objects and builds a new
\* object, { ...todo, completed: !todo.completed }, for the one with this id
badToggleTodo(rt, l, id) ==
    LET todos  == rt.val[N("todos")]
        Hit(i) == Cardinality({j \in 1..i : todos[j].id = id})
        next   == [i \in 1..Len(todos) |->
                     IF todos[i].id # id THEN todos[i]
                     ELSE [todos[i] EXCEPT !.completed = ~@,
                                           !.ref = l.objects + Hit(i)]]
    IN  [rt |-> SetSignal(rt, N("todos"), next),
         l  |-> [l EXCEPT !.objects = @ + Hit(Len(todos))]]

\* GoodTodoList.addTodo: createSignal(false), then the new object holds it
goodAddTodo(rt, l, text) ==
    LET ref  == l.objects + 1
        item == [id |-> l.todoId + 1, text |-> text, ref |-> ref]
        r1   == [rt EXCEPT !.val = Put(rt.val, CompletedOf(ref), FALSE)]
    IN  [rt |-> SetSignal(r1, N("todos"), Append(r1.val[N("todos")], item)),
         l  |-> [todoId |-> l.todoId + 1, objects |-> ref]]

\* toggleTodo written as in BadTodoList: a new object with a new signal
goodToggleTodoReplacing(rt, l, id) ==
    LET todos  == rt.val[N("todos")]
        ref    == l.objects + 1
        old    == CHOOSE i \in 1..Len(todos) : todos[i].id = id
        r1     == [rt EXCEPT !.val = Put(rt.val, CompletedOf(ref),
                                         ~rt.val[CompletedOf(todos[old].ref)])]
    IN  [rt |-> SetSignal(r1, N("todos"), [todos EXCEPT ![old].ref = ref]),
         l  |-> [l EXCEPT !.objects = ref]]

\* GoodTodoList.toggleTodo: find the todo, then todo.setCompleted(!todo.completed())
goodToggleTodo(rt, l, id) ==
    LET todos == rt.val[N("todos")]
        found == {i \in 1..Len(todos) : todos[i].id = id}
        first == CHOOSE i \in found : \A j \in found : i <= j
        node  == CompletedOf(todos[first].ref)
    IN  [rt |-> IF found = {} THEN rt ELSE SetSignal(rt, node, ~rt.val[node]),
         l  |-> l]

\* StoreTodo.addTodo: setTodos([...todos, { id: ++todoId, text, completed: false }]);
\* the objects already in the store stay the same objects
storeAddTodo(rt, l, text) ==
    LET ref  == l.objects + 1
        item == [id |-> l.todoId + 1, text |-> text, ref |-> ref]
        r1   == [rt EXCEPT !.val = Put(rt.val, CompletedOf(ref), FALSE)]
    IN  [rt |-> SetSignal(r1, N("todos"), Append(r1.val[N("todos")], item)),
         l  |-> [todoId |-> l.todoId + 1, objects |-> ref]]

\* setTodos(filter, "completed", fn): fn is applied to the completed property
\* of every todo the filter accepts, from index k on
RECURSIVE SetCompletedWhere(_, _, _)
SetCompletedWhere(rt, id, k) ==
    LET todos == rt.val[N("todos")]
        node  == CompletedOf(todos[k].ref)
    IN  IF k > Len(todos) THEN rt
        ELSE IF todos[k].id = id
          THEN SetCompletedWhere(SetSignal(rt, node, ~rt.val[node]), id, k + 1)
          ELSE SetCompletedWhere(rt, id, k + 1)

\* StoreTodo.toggleTodo
storeToggleTodo(rt, l, id) == [rt |-> SetCompletedWhere(rt, id, 1), l |-> l]

TodoAdded(d, rt, l, text) ==
    CASE d = "BadTodoList"  -> badAddTodo(rt, l, text)
      [] d = "GoodTodoList" -> goodAddTodo(rt, l, text)
      [] d = "StoreTodo"    -> storeAddTodo(rt, l, text)

TodoToggled(d, rt, l, id) ==
    CASE d = "BadTodoList"  -> badToggleTodo(rt, l, id)
      [] d = "GoodTodoList" -> goodToggleTodo(rt, l, id)
      [] d = "StoreTodo"    -> storeToggleTodo(rt, l, id)

\* the 'Add Todo' button: if (!input?.value.trim()) return; addTodo(input.value)
TodoAddClick ==
    \E text \in InputValues :
        /\ demo \in TodoDemos /\ phase = "mounted" /\ events < MaxEvents
        /\ text # "" => Len(val[N("todos")]) < MaxTodos
        /\ LET r == IF text = "" THEN [rt |-> Rt, l |-> local]
                    ELSE TodoAdded(demo, Rt, local, text)
           IN  Commit(r.rt) /\ local' = r.l
        /\ events' = events + 1
        /\ UNCHANGED <<demo, phase, timer, due, dom, inflight, redux, nextTodoId, trans>>

\* a row's checkbox: onchange={[toggleTodo, id]}
TodoToggleClick ==
    /\ demo \in TodoDemos /\ phase = "mounted" /\ events < MaxEvents
    /\ \E i \in 1..Len(val[N("todos")]) :
          LET r == TodoToggled(demo, Rt, local, val[N("todos")][i].id)
          IN  Commit(r.rt) /\ local' = r.l
    /\ events' = events + 1
    /\ UNCHANGED <<demo, phase, timer, due, dom, inflight, redux, nextTodoId, trans>>

\* BasicStoreUpdatesExample.reset
resetState(rt) ==
    SetSignal(rt, N("state"),
              Reconciled(rt.val[N("state")],
                         [firstName |-> "Phillip", lastName |-> "Sipe"]))

\* as if the setter replaced the state by its argument
changeNameAndAddJobReplacing(rt) ==
    SetSignal(rt, N("state"),
              [firstName |-> "Gerald", jobTitle |-> "Software Developer"])

\* BasicStoreUpdatesExample.changeNameAndAddJob
changeNameAndAddJob(rt) ==
    SetStore(rt, N("state"),
             [firstName |-> "Gerald", jobTitle |-> "Software Developer"])

\* BasicStoreUpdatesExample.addPreferredName
addPreferredName(rt) ==
    SetStore(rt, N("state"), [preferredName |-> rt.val[N("state")].firstName])

ResetStateClick == Click("BasicStoreUpdatesExample", resetState(Rt))

ChangeNameAndAddJobClick ==
    Click("BasicStoreUpdatesExample", changeNameAndAddJob(Rt))

AddPreferredNameClick == Click("BasicStoreUpdatesExample", addPreferredName(Rt))

\* BasicPathStoreUpdatesExample.reset
resetAnimalList(rt) ==
    SetSignal(rt, N("animalList"),
              Reconciled(rt.val[N("animalList")],
                         [counter |-> 2,
                          list |-> << [id |-> 23, title |-> "Birds "],
                                      [id |-> 27, title |-> "Fish"] >>]))

\* as if 'seen' were written to the entry that was just appended
addAndSeeMarsupialsLast(rt) ==
    LET A    == N("animalList")
        r1   == SetPath(rt, A, "counter", rt.val[A].counter + 1)
        r2   == SetPath(r1, A, "list",
                        Append(r1.val[A].list, [id |-> 43, title |-> "Marsupials"]))
        list == r2.val[A].list
    IN  SetPath(r2, A, "list", [list EXCEPT ![Len(list)] = Put(@, "seen", TRUE)])

\* BasicPathStoreUpdatesExample.addAndSeeMarsupials: three setter calls; the
\* path 'list', 2, 'seen' is the third entry, list[3] here
addAndSeeMarsupials(rt) ==
    LET A    == N("animalList")
        r1   == SetPath(rt, A, "counter", rt.val[A].counter + 1)
        r2   == SetPath(r1, A, "list",
                        Append(r1.val[A].list, [id |-> 43, title |-> "Marsupials"]))
        list == r2.val[A].list
    IN  SetPath(r2, A, "list", [list EXCEPT ![3] = Put(@, "seen", TRUE)])

ResetAnimalListClick ==
    Click("BasicPathStoreUpdatesExample", resetAnimalList(Rt))

AddAndSeeMarsupialsClick ==
    Click("BasicPathStoreUpdatesExample", addAndSeeMarsupials(Rt))

\* setTaskList('todos', part, key, updater), with the indices part selects
SetTodos(rt, indices, key, updater) ==
    SetPath(rt, N("taskList"), "todos",
            UpdateEach(rt.val[N("taskList")].todos, indices, key, updater))

\* AdvancedPathStoreUpdatesExample.reset
resetTaskList(rt) ==
    SetSignal(rt, N("taskList"),
              Reconciled(rt.val[N("taskList")],
                         [todos |-> << [task |-> "Finish work", completed |-> FALSE],
                                       [task |-> "Go grocery shopping", completed |-> FALSE],
                                       [task |-> "Make dinner", completed |-> FALSE] >>]))

\* markFirstAndThirdFinished: setTaskList('todos', [0, 2], 'completed', true)
markFirstAndThirdFinished(rt) ==
    SetTodos(rt, <<0, 2>>, "completed", [fn |-> "value", value |-> TRUE])

\* { from: 0, to: 1 } read as the loop of the comment above toggleOddTasksCompleted
toggleFirstTwoCompletedBelow(rt) ==
    SetTodos(rt, RangeBelow([from |-> 0, to |-> 1], Len(rt.val[N("taskList")].todos)),
             "completed", [fn |-> "not"])

\* toggleFirstTwoCompleted: { from: 0, to: 1 }, 'completed', c => !c
toggleFirstTwoCompleted(rt) ==
    SetTodos(rt, Range([from |-> 0, to |-> 1], Len(rt.val[N("taskList")].todos)),
             "completed", [fn |-> "not"])

\* toggleOddTasksCompleted: { by: 2 }, 'completed', c => !c
toggleOddTasksCompleted(rt) ==
    SetTodos(rt, Range([by |-> 2], Len(rt.val[N("taskList")].todos)),
             "completed", [fn |-> "not"])

\* addDifficultyToAllTasks: {}, 'difficulty', 'medium'
addDifficultyToAllTasks(rt) ==
    SetTodos(rt, Range(EmptyObject, Len(rt.val[N("taskList")].todos)),
             "difficulty", [fn |-> "value", value |-> "medium"])

\* finishAllIncompleteTasks: todo => !todo.completed, 'completed', true
finishAllIncompleteTasks(rt) ==
    SetTodos(rt, Where(rt.val[N("taskList")].todos, "!todo.completed", 0),
             "completed", [fn |-> "value", value |-> TRUE])

\* getExcitedAboutMundaneTasks: todo => !todo.task.endsWith('!'), 'task', t => t + '!'
getExcitedAboutMundaneTasks(rt) ==
    SetTodos(rt, Where(rt.val[N("taskList")].todos, "!todo.task.endsWith('!')", 0),
             "task", [fn |-> "plus", value |-> "!"])

ResetTaskListClick ==
    Click("AdvancedPathStoreUpdatesExample", resetTaskList(Rt))

MarkFirstAndThirdFinishedClick ==
    Click("AdvancedPathStoreUpdatesExample", markFirstAndThirdFinished(Rt))

ToggleOddTasksCompletedClick ==
    Click("AdvancedPathStoreUpdatesExample", toggleOddTasksCompleted(Rt))

AddDifficultyToAllTasksClick ==
    Click("AdvancedPathStoreUpdatesExample", addDifficultyToAllTasks(Rt))

FinishAllIncompleteTasksClick ==
    Click("AdvancedPathStoreUpdatesExample", finishAllIncompleteTasks(Rt))

GetExcitedAboutMundaneTasksClick ==
    Click("AdvancedPathStoreUpdatesExample", getExcitedAboutMundaneTasks(Rt))

\* <li onClick={updateTab(index)}>
TabClick ==
    \E index \in 0..2 :
        /\ demo = "TransitionExample" /\ phase = "mounted" /\ events < MaxEvents
        /\ LET r == updateTab(Rt, trans, index)
           IN  Commit(r.rt) /\ trans' = r.t
        /\ events' = events + 1
        /\ UNCHANGED <<demo, phase, timer, due, dom, inflight, redux, nextTodoId, local>>

\* createDelay: setTimeout(() => resolve(delay), delay) of one Child fires
DelayResolve ==
    /\ demo = "TransitionExample" /\ phase = "mounted"
    /\ \E r \in trans.loading :
          LET n == loadEnd(Rt, trans, r)
          IN  Commit(n.rt) /\ trans' = n.t
    /\ UNCHANGED <<demo, phase, events, timer, due, dom, inflight, redux, nextTodoId, local>>

\* UntrackExample / OnExample: <button onClick={() => setA(a() + 1)}>
IncrementA ==
    \E d \in {"UntrackExample", "OnExample"} :
        Click(d, SetSignal(Rt, N("a"), val[N("a")] + 1))

\* UntrackExample / OnExample: <button onClick={() => setB(b() + 1)}>
IncrementB ==
    \E d \in {"UntrackExample", "OnExample"} :
        Click(d, SetSignal(Rt, N("b"), val[N("b")] + 1))

\* OnMountExample: the fetch answers and the callback resumes:
\*   setPhotos(await res.json())
FetchResolve ==
    /\ demo = "OnMountExample" /\ inflight > 0 /\ events < MaxEvents
    /\ \E n \in 0..MaxPhotos :
         LET rt == SetSignal(Rt, N("photos"),
                             [ref |-> events + 1, items |-> [i \in 1..n |-> i]])
         IN  /\ Commit(rt)
             /\ inflight' = inflight - 1 + Started(rt)
    /\ events' = events + 1
    /\ UNCHANGED <<demo, phase, timer, due, dom, redux, nextTodoId, local, trans>>

\* OnMountExample: the fetch fails; the async callback rejects, nothing is set
FetchReject ==
    /\ demo = "OnMountExample" /\ inflight > 0
    /\ inflight' = inflight - 1
    /\ UNCHANGED <<demo, phase, val, obs, hist, log, events, timer, due, dom,
                   redux, nextTodoId, local, trans>>

\* store.dispatch(action): reduce, then call every listener
Dispatch(action) ==
    LET st == Reducer(redux.state, action)
    IN  /\ events < MaxEvents
        /\ redux' = [redux EXCEPT !.state = st]
        /\ IF "useRedux" \in redux.listeners
             THEN Commit(Listener(Rt, st))
             ELSE UNCHANGED <<val, obs, hist, log>>
        /\ events' = events + 1
        /\ UNCHANGED <<demo, phase, timer, due, dom, inflight, local, trans>>

\* mapActions: mapped.addTodo = (...args) => store.dispatch(actions.addTodo(...args))
DispatchAddTodo ==
    /\ demo = "ReduxTodo"
    /\ Len(redux.state.todos) < MaxTodos
    /\ \E text \in TodoTexts : Dispatch(addTodo(text))
    /\ nextTodoId' = nextTodoId + 1
    /\ UNCHANGED <<local, trans>>

\* mapActions: mapped.toggleTodo = (...args) => store.dispatch(actions.toggleTodo(...args))
DispatchToggleTodo ==
    /\ demo = "ReduxTodo"
    /\ \E i \in 1..Len(redux.state.todos) : Dispatch(toggleTodo(redux.state.todos[i].id))
    /\ UNCHANGED <<nextTodoId, local, trans>>

Next ==
    \/ Mount
    \/ Unmount
    \/ TimerFire
    \/ Tick
    \/ EffectsClick
    \/ MemosClick
    \/ BadUpdateNameClick
    \/ GoodUpdateNameClick
    \/ BadLoginClick
    \/ FetchResolve
    \/ FetchReject
    \/ DispatchAddTodo
    \/ DispatchToggleTodo
    \/ GoodLoginClick
    \/ TabClick
    \/ DelayResolve
    \/ ResetTaskListClick
    \/ MarkFirstAndThirdFinishedClick
    \/ ToggleOddTasksCompletedClick
    \/ AddDifficultyToAllTasksClick
    \/ FinishAllIncompleteTasksClick
    \/ GetExcitedAboutMundaneTasksClick
    \/ ResetStateClick
    \/ ChangeNameAndAddJobClick
    \/ AddPreferredNameClick
    \/ ResetAnimalListClick
    \/ AddAndSeeMarsupialsClick
    \/ TodoAddClick
    \/ TodoToggleClick
    \/ IncrementA
    \/ IncrementB

Spec == Init /\ [][Next]_vars

(***************************************************************************)
(* Properties                                                              *)
(***************************************************************************)
Mounted(d) == demo = d /\ phase = "mounted"
Rendered(d) == demo = d /\ phase # "none"

\* C1: in Memos the memo body (the one that prints 'Calculating Fibonacci')
\* has run once at creation plus once per click, although each of the 50
\* {fib()} expressions has read the memo once per render; every read shows
\* fibonacci(count).
MemoRunsOncePerChange ==
    Rendered("Memos") =>
        /\ val[N("count")] = 10 + events
        /\ Runs(hist, N("fib")) = 1 + events
        /\ log = [i \in 1..(1 + events) |-> <<"Calculating Fibonacci">>]
        /\ \A t \in FibTexts :
              /\ Runs(hist, t) = 1 + events
              /\ val[t] = fibonacci(val[N("count")])

MemoRunsOncePerChangeWitness ==
    /\ Rendered("Memos") /\ events = 3
    /\ Len(hist) = (1 + events) * (NumFibReads + 2)

\* C2: in DerivedSignals doubleCount is no node of the reactive graph (it
\* stores nothing); while the component is mounted the value shown is
\* 2 * count, and the view has been evaluated once at render plus once per
\* change of count, showing 0, 2, 4, ...
DerivedViewIsTwiceCount ==
    /\ Rendered("DerivedSignals") =>
          /\ N("doubleCount") \notin DOMAIN val
          /\ doubleCount(val) = 2 * val[N("count")]
    /\ Mounted("DerivedSignals") =>
          /\ val[N("doubleText")] = 2 * val[N("count")]
          /\ hist = [i \in 1..(1 + val[N("count")]) |->
                       [comp |-> N("doubleText"), out |-> 2 * (i - 1)]]

DerivedViewIsTwiceCountWitness ==
    Mounted("DerivedSignals") /\ val[N("count")] = 3 /\ val[N("doubleText")] = 6

CounterDemos == {"SignalTutorial", "DerivedSignals", "EffectsTutorial", "CleanCounter"}

\* C3: in the counter demos count is the number of ticks or clicks handled
\* so far (0 at render), and one handler invocation raises it by exactly 1.
CounterCountsEvents ==
    (demo \in CounterDemos /\ phase # "none") => val[N("count")] = events

CounterCountsEventsWitness ==
    demo = "CleanCounter" /\ events = 3 /\ val[N("count")] = 3

\* C4: in EffectsTutorial the effect has run once at creation and once per
\* click, and the k-th run printed the value the k-th click had just set:
\* the console shows 0, 1, ..., count.
EffectLogsEachValue ==
    Rendered("EffectsTutorial") =>
        /\ Runs(hist, N("logCount")) = 1 + events
        /\ log = [i \in 1..(1 + events) |-> <<"The count is now", i - 1>>]
        /\ log[Len(log)][2] = val[N("count")]

EffectLogsEachValueWitness ==
    Rendered("EffectsTutorial") /\ events = 3 /\ Len(log) = 4

\* C7: once CleanCounter is disposed its interval is cleared, and no step
\* changes count or runs a tick any more, a tick queued before the disposal
\* included.
CleanupStopsCounter ==
    [][(demo = "CleanCounter" /\ phase = "disposed") =>
          /\ timer = "cleared"
          /\ val' = val
          /\ events' = events]_vars

CleanupStopsCounterWitness ==
    demo = "CleanCounter" /\ phase = "disposed" /\ due /\ events = 2


\* C5: in ErrorExample Broken throws, the boundary catches the error and
\* renders its fallback (the error) between the 'Before' and 'After'
\* elements, which are rendered; 'Never Getting Here' is rendered nowhere.
ErrorBoundaryCatches ==
    Rendered("ErrorExample") =>
        /\ Broken.threw
        /\ dom.tree = Ok(<<Elem("div", "Before"), Elem("#error", "Oh No"),
                           Elem("div", "After")>>)
        /\ \A i \in 1..Len(dom.tree.nodes) :
              dom.tree.nodes[i].text # "Never Getting Here"

ErrorBoundaryCatchesWitness ==
    /\ Rendered("ErrorExample")
    /\ Len(dom.tree.nodes) = 3 /\ dom.tree.nodes[2].tag = "#error"

\* C6: in OnMountExample the onMount callback has run exactly once, after the
\* list was first rendered; while no response has arrived photos is empty and
\* the list shows 'Loading...'; photos is set at most once, by the one
\* response, and no later step changes it.
OnMountRunsOnce ==
    /\ [](Rendered("OnMountExample") =>
            /\ Runs(hist, N("onMount")) = 1
            /\ hist[1].comp = N("photoList") /\ hist[2].comp = N("onMount")
            /\ events + inflight <= 1
            /\ events = 0 =>
                 /\ val[N("photos")].items = <<>>
                 /\ val[N("photoList")] = <<"Loading...">>
            /\ (events = 1 /\ phase = "mounted") =>
                 val[N("photoList")] =
                    IF val[N("photos")].items = <<>> THEN <<"Loading...">>
                    ELSE val[N("photos")].items)
    /\ [][(demo = "OnMountExample" /\ events >= 1) =>
            val'[N("photos")] = val[N("photos")]]_vars

OnMountRunsOnceWitness ==
    /\ Mounted("OnMountExample") /\ events = 1 /\ inflight = 0
    /\ Len(val[N("photos")].items) = 2 /\ Len(val[N("photoList")]) = 2

\* C8: while ReduxTodo is mounted the Solid store equals store.getState()
\* (at creation and after every dispatch) and useRedux's listener is
\* subscribed; once the scope is cleaned up the listener is gone and no
\* dispatch changes the Solid store any more.
UseReduxMirrorsStore ==
    /\ [](demo = "ReduxTodo" =>
            /\ phase = "mounted" =>
                 val[N("state")] = redux.state /\ redux.listeners = {"useRedux"}
            /\ phase = "disposed" => redux.listeners = {})
    /\ [][(demo = "ReduxTodo" /\ phase = "disposed") => val' = val]_vars

UseReduxMirrorsStoreWitness ==
    /\ demo = "ReduxTodo" /\ phase = "disposed"
    /\ Len(val[N("state")].todos) = 1 /\ Len(redux.state.todos) = 2

RECURSIVE Grown(_, _, _)
\* base followed by n copies of ch
Grown(base, ch, n) == IF n = 0 THEN base ELSE Grown(base, ch, n - 1) \o ch

FullNameAfter(i, j) == Grown("John", "n", i) \o " " \o Grown("Smith", "!", j)

\* C9: after n clicks firstName is 'John' + n 'n' and lastName is 'Smith' +
\* n '!' in both examples.  With batch, fullName has run once at render and
\* once per click and always saw a pair of the same click; without batch it
\* has run twice per click, first with the new firstName and the old lastName.
BatchRunsFullNameOnce ==
    /\ (demo \in {"BadUpdateNameExample", "GoodUpdateNameExample"} /\ phase # "none") =>
          /\ val[N("firstName")] = Grown("John", "n", events)
          /\ val[N("lastName")] = Grown("Smith", "!", events)
    /\ Rendered("GoodUpdateNameExample") =>
          hist = [k \in 1..(1 + events) |->
                    [comp |-> N("fullName"), out |-> FullNameAfter(k - 1, k - 1)]]
    /\ Rendered("BadUpdateNameExample") =>
          hist = [k \in 1..(1 + 2 * events) |->
                    [comp |-> N("fullName"), out |-> FullNameAfter(k \div 2, (k - 1) \div 2)]]

BatchRunsFullNameOnceWitness ==
    /\ Rendered("GoodUpdateNameExample") /\ events = 2
    /\ val[N("fullName")] = "Johnnn Smith!!" /\ Len(hist) = 3

\* C10: in BadLoginButton the button keeps the handler (login) and the label
\* ('Log In') bound when the component ran: the first click printed
\* loggedIn = false, every later click printed true, logout has printed
\* nothing, and loggedIn is true from the first click on.
BadLoginNeverRebinds ==
    Rendered("BadLoginButton") =>
        /\ dom.onClick = "login" /\ dom.text = "Log In"
        /\ log = [k \in 1..events |-> <<"Bad Login Button - Logged in: ", k > 1>>]
        /\ val[N("loggedIn")] = (events >= 1)

BadLoginNeverRebindsWitness ==
    Rendered("BadLoginButton") /\ events = 3 /\ log[3][2] = TRUE


\* C11: in GoodLoginButton loggedIn is false at render and every click flips
\* it; after every click buttonText is 'Log Out' exactly when loggedIn is true
\* and 'Log In' exactly when it is false, and the button shows buttonText.
GoodLoginSignalsAgree ==
    Rendered("GoodLoginButton") =>
        /\ val[N("loggedIn")] = (events % 2 = 1)
        /\ val[N("buttonText")] = (IF val[N("loggedIn")] THEN "Log Out" ELSE "Log In")
        /\ val[N("buttonLabel")] = val[N("buttonText")]

GoodLoginSignalsAgreeWitness ==
    /\ Rendered("GoodLoginButton") /\ events = 3
    /\ val[N("loggedIn")] /\ val[N("buttonLabel")] = "Log Out"

\* C13: in UntrackExample the effect has run once at creation and once per
\* change of a (a starts at 1, so a times in all); a step that makes it run
\* changes a and prints the values a and b have after that step; a click on
\* 'Increment B' raises b and prints nothing.
UntrackRunsOnAOnly ==
    /\ [](Rendered("UntrackExample") =>
            /\ Runs(hist, N("printAB")) = val[N("a")]
            /\ Len(log) = val[N("a")]
            /\ (val[N("a")] - 1) + (val[N("b")] - 1) = events)
    /\ [][(demo = "UntrackExample" /\ phase = "mounted") =>
            /\ log' # log =>
                 /\ val'[N("a")] # val[N("a")]
                 /\ log' = Append(log, <<val'[N("a")], val'[N("b")]>>)
            /\ val'[N("a")] # val[N("a")] => log' # log]_vars

UntrackRunsOnAOnlyWitness ==
    /\ Rendered("UntrackExample") /\ val[N("b")] = 3
    /\ log = << <<1, 1>>, <<2, 3>> >>

\* C14: in OnExample the callback has not run at load and has run exactly
\* once per change of a (a - 1 times, a starting at 1), printing the new a and
\* the b of that moment; a step prints exactly when it changes a, never
\* because it changes b.
OnRunsDeferredOnAOnly ==
    /\ [](Rendered("OnExample") =>
            /\ Runs(hist, N("onA")) = val[N("a")]
            /\ Len(log) = val[N("a")] - 1
            /\ (val[N("a")] - 1) + (val[N("b")] - 1) = events)
    /\ [][(demo = "OnExample" /\ phase = "mounted") =>
            /\ log' # log =>
                 /\ val'[N("a")] # val[N("a")]
                 /\ log' = Append(log, <<"On example: ", val'[N("a")], val'[N("b")]>>)
            /\ val'[N("a")] # val[N("a")] => log' # log]_vars

OnRunsDeferredOnAOnlyWitness ==
    /\ Rendered("OnExample") /\ val[N("b")] = 3
    /\ log = << <<"On example: ", 2, 3>> >>

\* C12: in SwitchMatchExample, whatever x is, exactly one branch is rendered:
\* 'greater than 10' when x > 10, 'less than 5' when x < 5, and the fallback
\* otherwise, that is exactly when 5 <= x <= 10; 'greater than Bob' is never
\* rendered.
SwitchRendersFirstMatch ==
    Rendered("SwitchMatchExample") =>
        LET x == val[N("x")]
            shown == val[N("switch")]
        IN  /\ x = local.x
            /\ Len(shown) = 1
            /\ x > 10 => shown[1] = "greater than 10"
            /\ x < 5 => shown[1] = "less than 5"
            /\ (shown[1] = "is between 5 and 10") <=> (5 <= x /\ x <= 10)
            /\ shown[1] # "greater than Bob"

SwitchRendersFirstMatchWitness ==
    /\ Rendered("SwitchMatchExample") /\ val[N("x")] = XInSource
    /\ val[N("switch")] = <<"greater than 10">>

\* the completed values of the todos of value map v, in list order
Completed(d, v) ==
    [i \in 1..Len(v[N("todos")]) |->
        IF d = "BadTodoList" THEN v[N("todos")][i].completed
        ELSE v[CompletedOf(v[N("todos")][i].ref)]]

\* C15: a toggle changes one todo's completed value in all three lists.  In
\* BadTodoList the row callback runs again on every toggle and prints
\* 'Creating <text>' of the toggled todo; in GoodTodoList and StoreTodo the
\* callback has run exactly once per added todo, in order, and a toggle
\* leaves every todo object and the console as they were.
OnlyBadTodoListRecreatesRows ==
    /\ [](\A d \in {"GoodTodoList", "StoreTodo"} : Rendered(d) =>
            /\ log = [i \in 1..Len(val[N("todos")]) |->
                         "Creating " \o val[N("todos")][i].text]
            /\ local.objects = Len(val[N("todos")]))
    /\ [](Rendered("BadTodoList") =>
            /\ Len(log) = local.objects
            /\ Len(log) >= Len(val[N("todos")]))
    /\ [][(demo \in TodoDemos /\ phase = "mounted"
           /\ Len(val'[N("todos")]) = Len(val[N("todos")])
           /\ Completed(demo, val') # Completed(demo, val)) =>
            LET changed == {i \in 1..Len(val[N("todos")]) :
                              Completed(demo, val')[i] # Completed(demo, val)[i]}
                row == CHOOSE i \in changed : TRUE
            IN  /\ Cardinality(changed) = 1
                /\ IF demo = "BadTodoList"
                     THEN /\ val'[N("todos")][row].ref # val[N("todos")][row].ref
                          /\ log' = Append(log, "Creating " \o val[N("todos")][row].text)
                          /\ Runs(hist', N("todoRows")) = Runs(hist, N("todoRows")) + 1
                     ELSE /\ val'[N("todos")] = val[N("todos")]
                          /\ log' = log
                          /\ Runs(hist', N("todoRows")) = Runs(hist, N("todoRows"))]_vars

OnlyBadTodoListRecreatesRowsWitness ==
    /\ demo \in {"GoodTodoList", "StoreTodo"} /\ phase = "mounted"
    /\ Len(val[N("todos")]) = 2 /\ events = 4
    /\ Completed(demo, val) = <<FALSE, TRUE>>
    /\ log = <<"Creating a", "Creating b">>

\* animalList as createStore is given it
InitialAnimalList == SignalsOf("BasicPathStoreUpdatesExample")[N("animalList")]

\* C16: after a click on reset, whatever addAndSeeMarsupials calls came
\* before, animalList equals its initial value { counter: 2, list: [{ id: 23,
\* title: 'Birds' }, { id: 27, title: 'Fish' }] }.
ResetRestoresAnimalList ==
    [][ResetAnimalListClick => val'[N("animalList")] = InitialAnimalList]_vars

\* what reset does leave behind: the first title is 'Birds ' with a space
ResetLeavesTrailingSpace ==
    [][ResetAnimalListClick =>
         /\ val'[N("animalList")] = [InitialAnimalList EXCEPT !.list[1].title = "Birds "]
         /\ val'[N("jsonAnimalList")] = val'[N("animalList")]]_vars

\* C17: addAndSeeMarsupials on the default state gives counter 3 and the
\* list Birds, Fish, { id: 43, title: 'Marsupials', seen: true }; every call
\* adds 1 to the counter and appends one { id: 43, title: 'Marsupials' },
\* changes no other entry except that the third entry has seen = true
\* afterwards, and no entry but the third ever has a 'seen' key.
MarsupialsAppendedSeenAtThird ==
    /\ [](Rendered("BasicPathStoreUpdatesExample") =>
            /\ \A i \in 1..Len(val[N("animalList")].list) :
                  "seen" \in DOMAIN val[N("animalList")].list[i] => i = 3
            /\ val[N("jsonAnimalList")] = val[N("animalList")])
    /\ [][AddAndSeeMarsupialsClick =>
            LET a == val[N("animalList")]
                b == val'[N("animalList")]
                n == Len(a.list)
            IN  /\ DOMAIN b = {"counter", "list"}
                /\ b.counter = a.counter + 1
                /\ Len(b.list) = n + 1
                /\ \A i \in 1..n : i # 3 => b.list[i] = a.list[i]
                /\ n >= 3 => /\ b.list[3] = Put(a.list[3], "seen", TRUE)
                             /\ b.list[n + 1] = [id |-> 43, title |-> "Marsupials"]
                /\ n < 3 => b.list[3] = [id |-> 43, title |-> "Marsupials", seen |-> TRUE]
                /\ a = InitialAnimalList =>
                     b = [counter |-> 3,
                          list |-> << [id |-> 23, title |-> "Birds"],
                                      [id |-> 27, title |-> "Fish"],
                                      [id |-> 43, title |-> "Marsupials", seen |-> TRUE] >>]]_vars

MarsupialsAppendedSeenAtThirdWitness ==
    /\ Mounted("BasicPathStoreUpdatesExample") /\ events = 2
    /\ val[N("animalList")] =
         [counter |-> 4,
          list |-> << [id |-> 23, title |-> "Birds"],
                      [id |-> 27, title |-> "Fish"],
                      [id |-> 43, title |-> "Marsupials", seen |-> TRUE],
                      [id |-> 43, title |-> "Marsupials"] >>]

\* C19: changeNameAndAddJob sets firstName to 'Gerald' and jobTitle to
\* 'Software Developer' and leaves every other key as it was; addPreferredName
\* sets preferredName to the firstName of the moment of the click and leaves
\* every other key as it was.
StoreSetterMergesShallowly ==
    /\ [](Rendered("BasicStoreUpdatesExample") =>
            val[N("jsonState")] = val[N("state")])
    /\ [][ChangeNameAndAddJobClick =>
            LET a == val[N("state")]
                b == val'[N("state")]
            IN  /\ DOMAIN b = DOMAIN a \cup {"firstName", "jobTitle"}
                /\ b.firstName = "Gerald" /\ b.jobTitle = "Software Developer"
                /\ \A k \in DOMAIN a \ {"firstName", "jobTitle"} : b[k] = a[k]]_vars
    /\ [][AddPreferredNameClick =>
            LET a == val[N("state")]
                b == val'[N("state")]
            IN  /\ DOMAIN b = DOMAIN a \cup {"preferredName"}
                /\ b.preferredName = a.firstName
                /\ \A k \in DOMAIN a \ {"preferredName"} : b[k] = a[k]]_vars

StoreSetterMergesShallowlyWitness ==
    /\ Mounted("BasicStoreUpdatesExample")
    /\ val[N("state")] = [firstName |-> "Gerald", lastName |-> "Sipe",
                          jobTitle |-> "Software Developer",
                          preferredName |-> "Phillip"]

\* b is a with completed flipped (or, with flip false, set to true) at the
\* indices of S, counted from 0, and nothing else changed
CompletedChangedAt(a, b, S, flip) ==
    /\ Len(b) = Len(a)
    /\ \A i \in 1..Len(a) :
          b[i] = IF (i - 1) \in S
                   THEN [a[i] EXCEPT !.completed = IF flip THEN ~@ ELSE TRUE]
                   ELSE a[i]

\* the indices a range object stands for, said directly
Selected(from, to, by) == {i \in from..to : (i - from) % by = 0}

LastDelayResolved == \A r \in trans.loading : r.id # trans.tChild.id

\* C20 as stated: once the initial load is over, the old content stays with
\* pending() true exactly until the delay of the tab clicked last resolves,
\* and from then on that tab's content is shown with pending() false.
TransitionWaitsForNewTabOnly ==
    (Mounted("TransitionExample") /\ trans.resolved) =>
        /\ trans.pending <=> ~LastDelayResolved
        /\ LastDelayResolved => Shown(trans) = Pages[trans.tTab + 1]

\* C20, amended: the fallback is shown exactly while the initial load is
\* unresolved.  After it, a click on a tab other than the one the transition
\* is at leaves the shown content as it is and makes pending() true; pending()
\* is true exactly while some delay started inside the transition is
\* unresolved, the shown content does not change while it is, and when the
\* last of them resolves the content of the tab clicked last is shown with
\* pending() false.  A click on the tab the transition is already at starts
\* no delay.
TransitionWaitsForAllDelays ==
    /\ [](Mounted("TransitionExample") =>
            /\ (Shown(trans) = "Loading...") <=> ~trans.resolved
            /\ trans.pending <=> trans.promises # {}
            /\ trans.promises = {r.id : r \in {q \in trans.loading : q.under}}
            /\ trans.promises # {} => trans.resolved
            /\ ~trans.pending =>
                 /\ val[N("tab")] = trans.tTab
                 /\ trans.child = trans.tChild
                 /\ trans.child.page = Pages[trans.tTab + 1]
            /\ val[N("selected")] = [i \in 0..2 |-> val[N("tab")] = i])
    /\ [][(Mounted("TransitionExample") /\ trans.resolved /\ trans'.pending) =>
            /\ Shown(trans') = Shown(trans)
            /\ val'[N("tab")] = val[N("tab")]]_vars
    /\ [][(TabClick /\ trans.resolved) =>
            IF trans'.tTab # trans.tTab
              THEN /\ trans'.pending
                   /\ trans'.made = trans.made + 1
                   /\ trans'.tChild.id \in trans'.promises
              ELSE trans' = trans]_vars
    /\ [][(Mounted("TransitionExample") /\ trans.pending /\ ~trans'.pending) =>
            /\ {r \in trans'.loading : r.under} = {}
            /\ Shown(trans') = Pages[trans.tTab + 1]]_vars

\* two tabs were clicked one after the other, the delay of the second has
\* resolved, the delay of the first has not: the first content is still shown
TransitionWaitsForAllDelaysWitness ==
    /\ Mounted("TransitionExample") /\ trans.resolved
    /\ trans.pending /\ LastDelayResolved
    /\ trans.tTab = 2 /\ val[N("tab")] = 0 /\ Shown(trans) = "Uno"

====
